---------------------------- MODULE Spec2Model ----------------------------
(***************************************************************************)
(* A model of law's target collections (law/target/collection.py) and of   *)
(* the cached command line helpers (law/parser.py).                        *)
(*                                                                         *)
(* A leaf target is named by a string.  A collection keeps, per slot, the  *)
(* flat list of its leaves (_flat_targets); the storage is a function      *)
(* telling which leaves exist.  A threshold is a rational <<num, den>>,    *)
(* den > 0, so that fractional thresholds are compared exactly.            *)
(***************************************************************************)
EXTENDS Integers, Sequences, FiniteSets, TLC

VARIABLES
    kind,            \* "list" or "dict": the class of self.targets
    flat_targets,    \* self._flat_targets: per slot, the sequence of its leaves
    threshold,       \* self.threshold, <<num, den>>
    present,         \* storage: leaf -> what leaf.exists() answers
    pc,              \* position of the running call
    args,            \* arguments of the running call
    i,               \* loop index (0-based, as enumerate gives it)
    n,               \* running count of existing slots
    existing_keys,   \* count(): keys collected so far
    ret,             \* value returned ("none" while running)
    trace,           \* storage calls made by the running call, in order
    at_entry,        \* remove(): storage, len() and keys() when the call started
    nested,          \* the nested SiblingFileCollection the leaf "N" stands for
    fs,              \* directories: which exist, and what each lists
    basenames,       \* SiblingFileCollection: the local variable basenames
    seen,            \* the directory states there were while the call ran
    changes,         \* storage changes made by other processes so far
    luigi_parser,    \* CmdlineParser.get_instance(): "None" or the instance
    cache,           \* law.parser: the four module-level cached objects
    builds           \* law.parser: how often each cached object was computed

collVars == <<kind, flat_targets, threshold>>
callVars == <<pc, args, i, n, existing_keys, ret, trace>>
sibVars == <<nested, fs, basenames, seen, changes>>
parserVars == <<luigi_parser, cache, builds>>

vars == <<collVars, present, callVars, at_entry, sibVars, parserVars>>

-----------------------------------------------------------------------------
(* Bounds *)

MaxLen == 3

\* the leaves a slot may hold: no leaf, one leaf or two leaves
SlotLens == {0, 1, 2}

\* thresholds tried: negative, zero, fractions, one, and absolute counts
\* (fractional and larger than any length included)
Thresholds == { <<-1, 2>>, <<0, 1>>, <<1, 4>>, <<1, 2>>, <<1, 1>>,
                <<3, 2>>, <<2, 1>>, <<3, 1>>, <<6, 1>> }

\* keys of a dict-backed collection, in insertion order (not sorted)
DictKeys == <<"c", "a", "d", "b", "e", "f">>

-----------------------------------------------------------------------------
(* Helpers *)

SeqsOver(S, lens) == UNION { [1..k -> S] : k \in lens }

Range(s) == { s[k] : k \in DOMAIN s }

RECURSIVE Concat(_)
\* flatten(targets): the leaves of all slots, slot order then intra-slot order
Concat(slots) ==
    IF slots = <<>> THEN <<>> ELSE Head(slots) \o Concat(Tail(slots))

-----------------------------------------------------------------------------
(* TargetCollection *)

\* __len__
CollLen(flat) == Len(flat)

\* keys(): 0..len-1 for a list or tuple, the dict's keys otherwise
Keys(k, flat) ==
    IF k = "list" THEN [x \in 1..Len(flat) |-> x - 1]
                  ELSE [x \in 1..Len(flat) |-> DictKeys[x]]

\* _iter_flat(keys=True): the key of the slot at 0-based position idx
KeyAt(k, flat, idx) == Keys(k, flat)[idx + 1]

\* _abs_threshold
AbsThreshold(len, t) ==
    IF t[1] < 0 THEN <<0, 1>>
    ELSE IF t[1] <= t[2] THEN <<len * t[1], t[2]>>
    ELSE IF len * t[2] <= t[1] THEN <<len, 1>> ELSE t

\* threshold == 0
IsTrivial(thr) == thr[1] = 0

ThresholdReachedStrict(cnt, thr) == cnt * thr[2] > thr[1]
\* n >= threshold
ThresholdReached(cnt, thr) == cnt * thr[2] >= thr[1]

CannotReachLate(cnt, len, idx, thr) == (cnt + (len - idx)) * thr[2] < thr[1]
\* n + (len(self) - i - 1) < threshold
CannotReach(cnt, len, idx, thr) == (cnt + (len - idx - 1)) * thr[2] < thr[1]

\* all(t.exists() for t in targets): the leaves probed, in order, up to and
\* including the first one that does not exist
ProbedLeaves(targets, st) ==
    LET missing == { j \in DOMAIN targets : ~st[targets[j]] }
        last == IF missing = {} THEN Len(targets)
                ELSE CHOOSE j \in missing : \A m \in missing : j <= m
    IN  SubSeq(targets, 1, last)

\* all(t.exists() for t in targets)
AllExist(targets, st) == \A j \in DOMAIN targets : st[targets[j]]

\* the trace entries of probing slot idx
ProbeEvents(idx, targets, st) ==
    [j \in 1..Len(ProbedLeaves(targets, st)) |-> <<"exists", idx, j>>]

MissingKeysAll(keys, ekeys) == keys
\* [key for key in self.keys() if key not in existing_keys]
MissingKeys(keys, ekeys) ==
    SelectSeq(keys, LAMBDA key : key \notin Range(ekeys))

\* exists(): entry and the trivial case
ExistsCall ==
    /\ pc = "idle"
    /\ args' = [op |-> "exists"]
    /\ IF IsTrivial(AbsThreshold(CollLen(flat_targets), threshold))
       THEN /\ pc' = "done"
            /\ ret' = TRUE
       ELSE /\ pc' = "exists_loop"
            /\ ret' = "none"
    /\ i' = 0
    /\ n' = 0
    /\ UNCHANGED <<kind, flat_targets, threshold, present, existing_keys, trace>>
    /\ UNCHANGED <<at_entry, sibVars, parserVars>>

\* exists(): one iteration of the counting loop, or its exhaustion
ExistsIter ==
    /\ pc = "exists_loop"
    /\ LET len == CollLen(flat_targets)
           thr == AbsThreshold(len, threshold)
       IN  IF i >= len
           THEN /\ pc' = "done"
                /\ ret' = FALSE
                /\ UNCHANGED <<i, n, trace>>
           ELSE LET targets == flat_targets[i + 1]
                    all == AllExist(targets, present)
                    cnt == IF all THEN n + 1 ELSE n
                IN  /\ trace' = trace \o ProbeEvents(i, targets, present)
                    /\ n' = cnt
                    /\ IF all /\ ThresholdReached(cnt, thr)
                       THEN pc' = "done" /\ ret' = TRUE /\ i' = i
                       ELSE IF CannotReach(cnt, len, i, thr)
                       THEN pc' = "done" /\ ret' = FALSE /\ i' = i
                       ELSE pc' = "exists_loop" /\ ret' = "none" /\ i' = i + 1
    /\ UNCHANGED <<kind, flat_targets, threshold, present, args, existing_keys>>
    /\ UNCHANGED <<at_entry, sibVars, parserVars>>

\* count(existing, keys): entry
CountCall ==
    /\ pc = "idle"
    /\ \E e \in BOOLEAN, k \in BOOLEAN :
          args' = [op |-> "count", existing |-> e, keys |-> k]
    /\ pc' = "count_loop"
    /\ i' = 0
    /\ n' = 0
    /\ existing_keys' = <<>>
    /\ UNCHANGED <<kind, flat_targets, threshold, present, ret, trace>>
    /\ UNCHANGED <<at_entry, sibVars, parserVars>>

\* count(): one iteration of the counting loop
CountIter ==
    /\ pc = "count_loop"
    /\ i < CollLen(flat_targets)
    /\ LET targets == flat_targets[i + 1]
           all == AllExist(targets, present)
       IN  /\ trace' = trace \o ProbeEvents(i, targets, present)
           /\ n' = IF all THEN n + 1 ELSE n
           /\ existing_keys' =
                 IF all THEN Append(existing_keys, KeyAt(kind, flat_targets, i))
                        ELSE existing_keys
    /\ i' = i + 1
    /\ UNCHANGED <<kind, flat_targets, threshold, present, pc, args, ret>>
    /\ UNCHANGED <<at_entry, sibVars, parserVars>>

\* the value count() returns from n and existing_keys
CountResult(a, k, flat, cnt, ekeys) ==
    IF a.existing
    THEN IF ~a.keys THEN cnt ELSE <<cnt, ekeys>>
    ELSE IF ~a.keys THEN CollLen(flat) - cnt
         ELSE <<CollLen(flat) - cnt, MissingKeys(Keys(k, flat), ekeys)>>

\* count(): after the loop
CountReturn ==
    /\ pc = "count_loop"
    /\ i = CollLen(flat_targets)
    /\ ret' = CountResult(args, kind, flat_targets, n, existing_keys)
    /\ pc' = "done"
    /\ UNCHANGED <<kind, flat_targets, threshold, present, args, i, n,
                   existing_keys, trace>>
    /\ UNCHANGED <<at_entry, sibVars, parserVars>>

\* the part of the state a specification does not use
NoCall ==
    /\ pc = "idle" /\ args = [op |-> "none"] /\ i = 0 /\ n = 0
    /\ existing_keys = <<>> /\ ret = "none" /\ trace = <<>>
NoRemove == at_entry = "none"
NoSibling ==
    /\ nested = "none" /\ fs = "none" /\ basenames = [given |-> FALSE, names |-> {}]
    /\ seen = {} /\ changes = 0
NoParser == luigi_parser = "None" /\ cache = "none" /\ builds = "none"

\* two leaves: one that exists and one that does not, so that the slots
\* range over every pattern of existing and missing leaves
TCLeaves == {"p", "q"}

TCInit ==
    /\ kind \in {"list", "dict"}
    /\ flat_targets \in SeqsOver(SeqsOver(TCLeaves, SlotLens), 0..MaxLen)
    /\ threshold \in Thresholds
    /\ present = [l \in TCLeaves |-> l = "p"]
    /\ NoCall /\ NoRemove /\ NoSibling /\ NoParser

TCNext == ExistsCall \/ ExistsIter \/ CountCall \/ CountIter \/ CountReturn

SpecTC == TCInit /\ [][TCNext]_vars

-----------------------------------------------------------------------------
(* Claims about TargetCollection.exists and TargetCollection.count *)

\* a slot (1-based position x) whose leaves all exist in the storage
Complete(x) == \A j \in DOMAIN flat_targets[x] : present[flat_targets[x][j]]

\* number of complete slots among the first m slots
NumComplete(m) == Cardinality({ x \in 1..m : Complete(x) })

\* the keys, in keys() order, of the slots at the positions in S
KeysOf(S) ==
    LET idx == SelectSeq([x \in 1..Len(flat_targets) |-> x], LAMBDA x : x \in S)
    IN  [j \in 1..Len(idx) |-> Keys(kind, flat_targets)[idx[j]]]

\* C1: exists() answers true exactly when the number of slots whose leaves all
\* exist is >= absThreshold(), for list- and dict-backed collections, every
\* threshold (zero and negative included) and every length (zero included).
C1_ExistsIffCount ==
    (pc = "done" /\ args.op = "exists") =>
        LET len == Len(flat_targets)
            thr == AbsThreshold(len, threshold)
        IN  ret = (NumComplete(len) * thr[2] >= thr[1])

\* C1 witness: a finished exists() call under the fractional threshold 0.5 on
\* three slots, two of them complete and one not, answering true.
C1_Witness ==
    /\ pc = "done" /\ args.op = "exists" /\ ret = TRUE
    /\ threshold = <<1, 2>> /\ Len(flat_targets) = 3
    /\ NumComplete(3) = 2 /\ ~Complete(1)

\* the outcome is decided once the 0-based slot j has been looked at
DecidedAt(j) ==
    LET len == Len(flat_targets)
        thr == AbsThreshold(len, threshold)
        c == NumComplete(j + 1)
    IN  \/ c * thr[2] >= thr[1]
        \/ (c + (len - j - 1)) * thr[2] < thr[1]

\* C2: exists() probes slots in slot order and stops at the first slot index
\* at which the outcome is decided: true as soon as n >= absThreshold(), false
\* as soon as n + (len - i - 1) < absThreshold(); no leaf of a later slot is
\* probed, and with a zero threshold nothing is probed at all.
C2_EarlyStop ==
    /\ (pc = "exists_loop") =>
          /\ \A j \in 0..(i - 1) : ~DecidedAt(j)
          /\ \A e \in DOMAIN trace : trace[e][2] < i
    /\ (pc = "done" /\ args.op = "exists") =>
          LET len == Len(flat_targets)
              thr == AbsThreshold(len, threshold)
          IN  IF thr[1] = 0
              THEN ret = TRUE /\ trace = <<>>
              ELSE /\ i \in 0..(len - 1)
                   /\ DecidedAt(i)
                   /\ \A j \in 0..(i - 1) : ~DecidedAt(j)
                   /\ ret = (NumComplete(i + 1) * thr[2] >= thr[1])
                   /\ \A e \in DOMAIN trace : trace[e][2] <= i
                   /\ \A e, f \in DOMAIN trace :
                         e < f => trace[e][2] <= trace[f][2]

\* C2 witness: three slots, absolute threshold 2, slots 0 and 1 missing: the
\* call answers false at slot 1 and the existing leaf of slot 2 is not probed.
C2_Witness ==
    /\ pc = "done" /\ args.op = "exists" /\ ret = FALSE
    /\ threshold = <<2, 1>> /\ Len(flat_targets) = 3
    /\ ~Complete(1) /\ ~Complete(2) /\ Complete(3) /\ flat_targets[3] # <<>>
    /\ i = 1
    /\ trace # <<>>

\* C9: count(existing=True, keys=True) returns (n, K), K the keys in slot
\* order of exactly the complete slots and n = |K|; count(existing=False,
\* keys=True) returns (len - n, M), M the keys in keys() order of exactly the
\* slots with a missing leaf; K and M are disjoint, cover keys() and the two
\* counts sum to len.
C9_CountExact ==
    (pc = "done" /\ args.op = "count" /\ args.keys) =>
        LET len == Len(flat_targets)
            K == KeysOf({ x \in 1..len : Complete(x) })
            M == KeysOf({ x \in 1..len : ~Complete(x) })
        IN  /\ ret = IF args.existing THEN <<Len(K), K>> ELSE <<len - Len(K), M>>
            /\ Range(K) \cap Range(M) = {}
            /\ Range(K) \cup Range(M) = Range(Keys(kind, flat_targets))
            /\ Len(K) + Len(M) = len

\* C9 witness: the dict {c: exists, a: missing, d: exists} counted with
\* existing=False, keys=True gives (1, [a]).
C9_Witness ==
    /\ pc = "done" /\ args.op = "count" /\ args.keys /\ ~args.existing
    /\ kind = "dict" /\ Len(flat_targets) = 3
    /\ Complete(1) /\ ~Complete(2) /\ Complete(3)
    /\ ret = <<1, <<"a">>>>

-----------------------------------------------------------------------------
(* TargetCollection.remove *)

\* a leaf's remove(silent): it deletes the backing resource; when the
\* resource is absent already the removal fails, which silent=True swallows
\* and silent=False raises
LeafRemove(leaf, silent, st) ==
    IF st[leaf]
    THEN [raised |-> FALSE, st |-> [st EXCEPT ![leaf] = FALSE]]
    ELSE [raised |-> ~silent, st |-> st]

PassedSilentDefault(a) == TRUE
\* target.remove(silent=silent): the flag handed to each leaf
PassedSilent(a) == a.silent

\* remove(silent): entry
RemoveCall ==
    /\ pc = "idle"
    /\ \E s \in BOOLEAN : args' = [op |-> "remove", silent |-> s]
    /\ pc' = "remove_loop"
    /\ i' = 0
    /\ at_entry' = [present |-> present, len |-> CollLen(flat_targets),
                    keys |-> Keys(kind, flat_targets)]
    /\ UNCHANGED <<collVars, present, n, existing_keys, ret, trace>>
    /\ UNCHANGED <<sibVars, parserVars>>

\* remove(): one iteration over self._flat_target_list; an error raised by
\* the leaf ends the call
RemoveIter ==
    /\ pc = "remove_loop"
    /\ i < Len(Concat(flat_targets))
    /\ LET leaf == Concat(flat_targets)[i + 1]
           r == LeafRemove(leaf, PassedSilent(args), present)
       IN  /\ trace' = Append(trace, <<"remove", leaf, PassedSilent(args)>>)
           /\ present' = r.st
           /\ IF r.raised
              THEN pc' = "raised" /\ ret' = "error" /\ i' = i
              ELSE pc' = "remove_loop" /\ ret' = ret /\ i' = i + 1
    /\ UNCHANGED <<collVars, args, n, existing_keys, at_entry>>
    /\ UNCHANGED <<sibVars, parserVars>>

\* remove(): the loop is through
RemoveReturn ==
    /\ pc = "remove_loop"
    /\ i = Len(Concat(flat_targets))
    /\ pc' = "done"
    /\ ret' = "None"
    /\ UNCHANGED <<collVars, present, args, i, n, existing_keys, trace, at_entry>>
    /\ UNCHANGED <<sibVars, parserVars>>

RemoveInit ==
    /\ kind \in {"list", "dict"}
    /\ flat_targets \in SeqsOver(SeqsOver(TCLeaves, SlotLens), 0..MaxLen)
    /\ threshold = <<1, 1>>
    /\ present \in [TCLeaves -> BOOLEAN]
    /\ NoCall /\ NoRemove /\ NoSibling /\ NoParser

RemoveNext == RemoveCall \/ RemoveIter \/ RemoveReturn

SpecRemove == RemoveInit /\ [][RemoveNext]_vars

-----------------------------------------------------------------------------
(* Claims about TargetCollection.remove *)

\* the removal of the leaf at position k of allLeaves fails: its resource was
\* absent when the call started or an earlier position holds the same leaf
RemovalFails(k) ==
    LET L == Concat(flat_targets)
    IN  \/ ~at_entry.present[L[k]]
        \/ \E m \in 1..(k - 1) : L[m] = L[k]

\* the storage once the first m positions of allLeaves have been removed
StorageAfter(m) ==
    LET L == Concat(flat_targets)
    IN  [l \in DOMAIN at_entry.present |->
            at_entry.present[l] /\ l \notin { L[k] : k \in 1..m }]

\* the positions of allLeaves at which remove() called the leaf l
CallsOf(l) == { k \in DOMAIN trace : trace[k][2] = l }

\* C8 (amended): remove(silent) calls remove(silent) on the leaves in
\* allLeaves order, once per position of allLeaves, so a leaf held at several
\* positions is called once per occurrence.  With silent=True the call never
\* fails and goes through every position, absent leaves included; with
\* silent=False the first position whose removal fails ends the call with
\* that error, the positions before it are removed and none after it is
\* touched.  len() and keys() stay as they were.
C8_Remove ==
    (args.op = "remove") =>
        LET L == Concat(flat_targets)
            f == Len(trace)
        IN  /\ f <= Len(L)
            /\ trace = [k \in 1..f |-> <<"remove", L[k], args.silent>>]
            /\ CollLen(flat_targets) = at_entry.len
            /\ Keys(kind, flat_targets) = at_entry.keys
            /\ args.silent => pc # "raised"
            /\ (pc = "done") =>
                  /\ f = Len(L)
                  /\ present = StorageAfter(f)
                  /\ ~args.silent => \A k \in 1..f : ~RemovalFails(k)
            /\ (pc = "raised") =>
                  /\ f >= 1
                  /\ RemovalFails(f)
                  /\ \A k \in 1..(f - 1) : ~RemovalFails(k)
                  /\ present = StorageAfter(f - 1)

\* C8 (as stated): the same, with each leaf called at most once per call.
\* A collection holding one leaf at two positions calls it twice.
C8_EachLeafOnce ==
    /\ C8_Remove
    /\ (args.op = "remove") => \A l \in TCLeaves : Cardinality(CallsOf(l)) <= 1

\* C8 witness: remove(silent=False) on the leaves p, p, q, all present: the
\* first position removes p, the second calls p again, fails and ends the
\* call, q is not touched and still exists.
C8_Witness ==
    /\ pc = "raised" /\ args.op = "remove" /\ ~args.silent
    /\ Concat(flat_targets) = <<"p", "p", "q">>
    /\ at_entry.present = [l \in TCLeaves |-> TRUE]
    /\ Len(trace) = 2 /\ CallsOf("p") = {1, 2}
    /\ present = [l \in TCLeaves |-> l = "q"]

\* C8 witness, silent: remove(silent=True) that went through an absent leaf
\* and completed
C8_WitnessSilent ==
    /\ pc = "done" /\ args.op = "remove" /\ args.silent
    /\ \E k \in DOMAIN trace : ~at_entry.present[trace[k][2]]

-----------------------------------------------------------------------------
(* SiblingFileCollection *)

MaxSibLen == 2

Dirs == {"d1", "d2"}

\* a file system leaf is named by its basename; "N" is a leaf that is the
\* nested SiblingFileCollection
Basenames == {"a", "b"}

\* the slots tried: empty, file leaves, the nested collection, and mixes
SibSlots == { <<>>, <<"a">>, <<"b">>, <<"N">>, <<"a", "b">>, <<"a", "N">>,
              <<"N", "b">> }

SibThresholds == { <<0, 1>>, <<1, 2>>, <<1, 1>>, <<2, 1>> }

\* the nested collections tried: two file leaves in either directory
NestedChoices ==
    [dir : Dirs, threshold : { <<0, 1>>, <<1, 2>>, <<1, 1>> },
     flat : { << <<"a">>, <<"b">> >> }]

\* first_target.parent of a file leaf of the outer collection
TopDir == "d1"

\* the argument basenames=None
None == [given |-> FALSE, names |-> {}]
Given(S) == [given |-> TRUE, names |-> S]

\* self.dir: the parent of the first leaf, or the dir of a nested first leaf
SibDir(flat, nc) ==
    IF Concat(flat)[1] = "N" THEN nc.dir ELSE TopDir

\* the outer collection as an object
Self == [dir |-> SibDir(flat_targets, nested), threshold |-> threshold,
         flat |-> flat_targets]

\* self.dir.exists()
DirExists(d, st) == st.exists[d]

\* self.dir.listdir(): the entries of the directory; it raises when the
\* directory is not there
ListDir(d, st) ==
    IF st.exists[d] THEN [raised |-> FALSE, names |-> st.entries[d]]
                    ELSE [raised |-> TRUE, names |-> {}]

NeedsListingIfEmpty(bn) == ~bn.given \/ bn.names = {}
\* basenames is None
NeedsListing(bn) == ~bn.given

LeafOwnExists(t, names) == present[t]
\* target.basename not in basenames, negated
LeafInListing(t, names) == t \in names

CountMissingDirKeys(a, k, flat) ==
    IF a.existing
    THEN IF ~a.keys THEN 0 ELSE <<0, Keys(k, flat)>>
    ELSE IF ~a.keys THEN CollLen(flat) ELSE <<CollLen(flat), <<>> >>
\* count(): the value returned when the directory does not exist
CountMissingDir(a, k, flat) ==
    IF a.existing
    THEN IF ~a.keys THEN 0 ELSE <<0, <<>> >>
    ELSE IF ~a.keys THEN CollLen(flat) ELSE <<CollLen(flat), Keys(k, flat)>>

\* count(): the value returned after the scan
SibCountResult(a, k, flat, cnt, ekeys) ==
    IF a.existing
    THEN IF ~a.keys THEN cnt ELSE <<cnt, ekeys>>
    ELSE IF ~a.keys THEN CollLen(flat) - cnt
         ELSE <<CollLen(flat) - cnt, MissingKeys(Keys(k, flat), ekeys)>>

RECURSIVE SlotCheck(_, _, _, _)
RECURSIVE SibExistsLoop(_, _, _, _, _, _, _)
RECURSIVE SibExistsRun(_, _, _, _)

\* the inner for-loop over the leaves of one slot, with its break and else:
\* whether the slot counts, and the storage calls made
SlotCheck(targets, names, st, nc) ==
    IF targets = <<>> THEN [ok |-> TRUE, ev |-> <<>>]
    ELSE IF Head(targets) # "N"
    THEN IF ~LeafInListing(Head(targets), names)
         THEN [ok |-> FALSE, ev |-> <<>>]
         ELSE SlotCheck(Tail(targets), names, st, nc)
    ELSE LET r == SibExistsRun(nc, Given(names), st, nc)
         IN  IF ~r.val
             THEN [ok |-> FALSE, ev |-> r.ev]
             ELSE LET rest == SlotCheck(Tail(targets), names, st, nc)
                  IN  [ok |-> rest.ok, ev |-> r.ev \o rest.ev]

\* exists(): the counting loop from slot idx on
SibExistsLoop(c, names, st, nc, idx, cnt, ev) ==
    LET len == Len(c.flat)
        thr == AbsThreshold(len, c.threshold)
    IN  IF idx >= len THEN [val |-> FALSE, ev |-> ev]
        ELSE LET r == SlotCheck(c.flat[idx + 1], names, st, nc)
                 cnt2 == IF r.ok THEN cnt + 1 ELSE cnt
             IN  IF ThresholdReached(cnt2, thr)
                 THEN [val |-> TRUE, ev |-> ev \o r.ev]
                 ELSE IF CannotReach(cnt2, len, idx, thr)
                 THEN [val |-> FALSE, ev |-> ev \o r.ev]
                 ELSE SibExistsLoop(c, names, st, nc, idx + 1, cnt2, ev \o r.ev)

\* exists(basenames) of collection c on the storage st, run to its end
SibExistsRun(c, bn, st, nc) ==
    LET thr == AbsThreshold(Len(c.flat), c.threshold)
        ev0 == << <<"exists", c.dir, bn>>, <<"dir.exists", c.dir, bn>> >>
    IN  IF ~DirExists(c.dir, st) THEN [val |-> FALSE, ev |-> ev0]
        ELSE IF IsTrivial(thr) THEN [val |-> TRUE, ev |-> ev0]
        ELSE IF NeedsListing(bn)
        THEN SibExistsLoop(c, ListDir(c.dir, st).names, st, nc, 0, 0,
                           Append(ev0, <<"listdir", c.dir, bn>>))
        ELSE SibExistsLoop(c, bn.names, st, nc, 0, 0, ev0)

RECURSIVE SibCountLoop(_, _, _, _, _, _, _, _)
\* count(): the scan from slot idx on
SibCountLoop(c, k, names, st, nc, idx, cnt, ekeys) ==
    IF idx >= Len(c.flat) THEN [n |-> cnt, keys |-> ekeys]
    ELSE LET r == SlotCheck(c.flat[idx + 1], names, st, nc)
         IN  IF r.ok
             THEN SibCountLoop(c, k, names, st, nc, idx + 1, cnt + 1,
                               Append(ekeys, KeyAt(k, c.flat, idx)))
             ELSE SibCountLoop(c, k, names, st, nc, idx + 1, cnt, ekeys)

\* count(existing, keys) of collection c on the storage st, run to its end
SibCountRun(c, a, k, st, nc) ==
    IF ~DirExists(c.dir, st) THEN CountMissingDir(a, k, c.flat)
    ELSE LET r == SibCountLoop(c, k, ListDir(c.dir, st).names, st, nc, 0, 0, <<>>)
         IN  SibCountResult(a, k, c.flat, r.n, r.keys)

\* exists(): entry, the check of the directory and the trivial case
SibExistsCall ==
    /\ pc = "idle"
    /\ args' = [op |-> "sib_exists"]
    /\ basenames' = None
    /\ seen' = {fs}
    /\ trace' = << <<"exists", Self.dir, None>>, <<"dir.exists", Self.dir, None>> >>
    /\ IF ~DirExists(Self.dir, fs)
       THEN pc' = "done" /\ ret' = FALSE
       ELSE IF IsTrivial(AbsThreshold(CollLen(flat_targets), threshold))
       THEN pc' = "done" /\ ret' = TRUE
       ELSE pc' = "sib_exists_list" /\ ret' = "none"
    /\ i' = 0
    /\ n' = 0
    /\ UNCHANGED <<collVars, present, existing_keys, at_entry, nested, fs,
                   changes, parserVars>>

\* exists(): basenames = self.dir.listdir() when none were passed
SibExistsList ==
    /\ pc = "sib_exists_list"
    /\ IF NeedsListing(basenames)
       THEN LET l == ListDir(Self.dir, fs)
            IN  /\ trace' = Append(trace, <<"listdir", Self.dir, basenames>>)
                /\ IF l.raised
                   THEN pc' = "raised" /\ ret' = "error" /\ basenames' = basenames
                   ELSE pc' = "sib_exists_loop" /\ ret' = ret
                        /\ basenames' = Given(l.names)
       ELSE pc' = "sib_exists_loop" /\ UNCHANGED <<ret, basenames, trace>>
    /\ UNCHANGED <<collVars, present, args, i, n, existing_keys, at_entry,
                   nested, fs, seen, changes, parserVars>>

\* exists(): one iteration of the counting loop, or its exhaustion
SibExistsIter ==
    /\ pc = "sib_exists_loop"
    /\ LET len == CollLen(flat_targets)
           thr == AbsThreshold(len, threshold)
       IN  IF i >= len
           THEN /\ pc' = "done"
                /\ ret' = FALSE
                /\ UNCHANGED <<i, n, trace>>
           ELSE LET r == SlotCheck(flat_targets[i + 1], basenames.names, fs, nested)
                    cnt == IF r.ok THEN n + 1 ELSE n
                IN  /\ trace' = trace \o r.ev
                    /\ n' = cnt
                    /\ IF ThresholdReached(cnt, thr)
                       THEN pc' = "done" /\ ret' = TRUE /\ i' = i
                       ELSE IF CannotReach(cnt, len, i, thr)
                       THEN pc' = "done" /\ ret' = FALSE /\ i' = i
                       ELSE pc' = "sib_exists_loop" /\ ret' = "none" /\ i' = i + 1
    /\ UNCHANGED <<collVars, present, args, existing_keys, at_entry, sibVars,
                   parserVars>>

\* count(existing, keys): entry and the check of the directory
SibCountCall ==
    /\ pc = "idle"
    /\ \E e \in BOOLEAN, k \in BOOLEAN :
          /\ args' = [op |-> "sib_count", existing |-> e, keys |-> k]
          /\ IF ~DirExists(Self.dir, fs)
             THEN pc' = "done" /\ ret' = CountMissingDir(args', kind, flat_targets)
             ELSE pc' = "sib_count_list" /\ ret' = "none"
    /\ basenames' = None
    /\ seen' = {fs}
    /\ trace' = << <<"count", Self.dir, None>>, <<"dir.exists", Self.dir, None>> >>
    /\ i' = 0
    /\ n' = 0
    /\ existing_keys' = <<>>
    /\ UNCHANGED <<collVars, present, at_entry, nested, fs, changes, parserVars>>

\* count(): basenames = self.dir.listdir() when none were passed
SibCountList ==
    /\ pc = "sib_count_list"
    /\ IF NeedsListing(basenames)
       THEN LET l == ListDir(Self.dir, fs)
            IN  /\ trace' = Append(trace, <<"listdir", Self.dir, basenames>>)
                /\ IF l.raised
                   THEN pc' = "raised" /\ ret' = "error" /\ basenames' = basenames
                   ELSE pc' = "sib_count_loop" /\ ret' = ret
                        /\ basenames' = Given(l.names)
       ELSE pc' = "sib_count_loop" /\ UNCHANGED <<ret, basenames, trace>>
    /\ UNCHANGED <<collVars, present, args, i, n, existing_keys, at_entry,
                   nested, fs, seen, changes, parserVars>>

\* count(): one iteration of the scan
SibCountIter ==
    /\ pc = "sib_count_loop"
    /\ i < CollLen(flat_targets)
    /\ LET r == SlotCheck(flat_targets[i + 1], basenames.names, fs, nested)
       IN  /\ trace' = trace \o r.ev
           /\ n' = IF r.ok THEN n + 1 ELSE n
           /\ existing_keys' =
                 IF r.ok THEN Append(existing_keys, KeyAt(kind, flat_targets, i))
                         ELSE existing_keys
    /\ i' = i + 1
    /\ UNCHANGED <<collVars, present, pc, args, ret, at_entry, sibVars, parserVars>>

\* count(): after the scan
SibCountReturn ==
    /\ pc = "sib_count_loop"
    /\ i = CollLen(flat_targets)
    /\ ret' = SibCountResult(args, kind, flat_targets, n, existing_keys)
    /\ pc' = "done"
    /\ UNCHANGED <<collVars, present, args, i, n, existing_keys, trace,
                   at_entry, sibVars, parserVars>>

\* the storage states: a missing directory lists nothing
FsStates ==
    { st \in [exists : [Dirs -> BOOLEAN], entries : [Dirs -> SUBSET Basenames]] :
        \A d \in Dirs : ~st.exists[d] => st.entries[d] = {} }

SibInit ==
    /\ kind \in {"list", "dict"}
    /\ flat_targets \in SeqsOver(SibSlots, 1..MaxSibLen)
    /\ Concat(flat_targets) # <<>>
    /\ threshold \in SibThresholds
    /\ nested \in NestedChoices
    /\ "N" \notin Range(Concat(flat_targets)) =>
          nested = [dir |-> "d1", threshold |-> <<1, 1>>,
                    flat |-> << <<"a">>, <<"b">> >>]
    /\ fs \in FsStates
    /\ \A d \in Dirs : d # SibDir(flat_targets, nested) => fs.entries[d] = {}
    \* what each file leaf's own exists() would answer: "a" is listed at
    \* times but never exists itself (a broken link), "b" always exists
    /\ present = [l \in Basenames |-> l = "b"]
    /\ basenames = None
    /\ seen = {}
    /\ changes = 0
    /\ NoCall /\ NoRemove /\ NoParser

SibNext ==
    \/ SibExistsCall \/ SibExistsList \/ SibExistsIter
    \/ SibCountCall \/ SibCountList \/ SibCountIter \/ SibCountReturn

SpecSib == SibInit /\ [][SibNext]_vars

-----------------------------------------------------------------------------
(* Claims about SiblingFileCollection on a storage that does not change *)

SibOps == {"sib_exists", "sib_count"}

\* the listing calls the running call made
Listings == { e \in DOMAIN trace : trace[e][1] = "listdir" }

\* the calls of exists(basenames) made on the nested collection
NestedCalls == { e \in DOMAIN trace : e > 1 /\ trace[e][1] = "exists" }

\* C3 (as claimed): when the shared directory does not exist, exists()
\* returns false, unless absThreshold() == 0, in which case it returns true.
C3_MissingDirUnlessTrivial ==
    (pc = "done" /\ args.op = "sib_exists" /\ ~fs.exists[Self.dir]) =>
        ret = IsTrivial(AbsThreshold(CollLen(flat_targets), threshold))

\* C4: with a directory that does not exist, count(existing=True, keys=True)
\* returns (0, []), count(existing=False, keys=True) returns (len, keys()),
\* and neither exists() nor count() lists a directory.
C4_MissingDirCount ==
    (pc = "done" /\ args.op \in SibOps /\ ~fs.exists[Self.dir]) =>
        /\ Listings = {}
        /\ (args.op = "sib_count" /\ args.keys) =>
              ret = IF args.existing
                    THEN <<0, <<>> >>
                    ELSE <<Len(flat_targets), Keys(kind, flat_targets)>>

\* C4 witness: the dict of two slots, directory missing, counted with
\* existing=False, keys=True: (2, [c, a]).
C4_Witness ==
    /\ pc = "done" /\ args.op = "sib_count" /\ args.keys /\ ~args.existing
    /\ ~fs.exists[Self.dir]
    /\ kind = "dict" /\ Len(flat_targets) = 2
    /\ ret = <<2, <<"c", "a">> >>

\* a slot all of whose file leaves are in the directory's listing and whose
\* nested collections answer exists(basenames) true against that listing
SlotListed(x) ==
    LET L == fs.entries[Self.dir]
    IN  \A j \in DOMAIN flat_targets[x] :
            IF flat_targets[x][j] = "N"
            THEN SibExistsRun(nested, Given(L), fs, nested).val
            ELSE flat_targets[x][j] \in L

ListedSlots == { x \in 1..Len(flat_targets) : SlotListed(x) }

\* C5: with an existing directory a slot counts as existing exactly when
\* every file leaf's basename is in the listing and every nested collection
\* answers exists(basenames) true against the same listing, whatever the
\* leaves' own exists() would say; count(existing=True) is the number of
\* such slots (with their keys), and exists() is true iff that number is
\* >= absThreshold().
C5_BasenameSemantics ==
    (pc = "done" /\ args.op \in SibOps /\ fs.exists[Self.dir]) =>
        LET len == Len(flat_targets)
            thr == AbsThreshold(len, threshold)
            cnt == Cardinality(ListedSlots)
        IN  /\ args.op = "sib_exists" => ret = (cnt * thr[2] >= thr[1])
            /\ (args.op = "sib_count" /\ args.existing) =>
                  ret = IF args.keys THEN <<cnt, KeysOf(ListedSlots)>> ELSE cnt

\* C5 witness: listing {a}, slots [a], [b], threshold 1.0: a is counted
\* although its own exists() is false, b is not although its own is true;
\* exists() is false.
C5_Witness ==
    /\ pc = "done" /\ args.op = "sib_exists" /\ ret = FALSE
    /\ flat_targets = << <<"a">>, <<"b">> >> /\ threshold = <<1, 1>>
    /\ fs.exists["d1"] /\ fs.entries["d1"] = {"a"}
    /\ ListedSlots = {1}
    /\ ~present["a"] /\ present["b"]

\* C6 (as claimed): a top-level exists() or count() on an existing directory
\* makes exactly one directory listing, and every nested call gets it.
C6_ExactlyOneListing ==
    (pc = "done" /\ args.op \in SibOps /\ fs.exists[Self.dir]) =>
        /\ Cardinality(Listings) = 1
        /\ \A e \in NestedCalls : trace[e][3] = Given(fs.entries[Self.dir])

\* C6 (amended): the call makes one listing, of its own directory, except
\* that exists() with absThreshold() == 0 returns without listing; the
\* nested calls all get that listing and make none of their own, also when
\* it is empty or their directory is another one.
C6_OneListingUnlessTrivial ==
    (pc = "done" /\ args.op \in SibOps /\ fs.exists[Self.dir]) =>
        LET trivial == /\ args.op = "sib_exists"
                       /\ IsTrivial(AbsThreshold(CollLen(flat_targets), threshold))
        IN  /\ Cardinality(Listings) = IF trivial THEN 0 ELSE 1
            /\ \A e \in Listings :
                  trace[e][2] = Self.dir /\ \A f \in NestedCalls : e < f
            /\ \A e \in NestedCalls : trace[e][3] = Given(fs.entries[Self.dir])

\* C6 witness: a finished count() whose listing is empty and which asked a
\* nested collection with another, existing directory and a threshold that
\* is not trivial.
C6_Witness ==
    /\ pc = "done" /\ args.op = "sib_count" /\ fs.exists[Self.dir]
    /\ fs.entries[Self.dir] = {}
    /\ NestedCalls # {}
    /\ nested.dir # Self.dir /\ fs.exists[nested.dir]
    /\ nested.threshold = <<1, 2>>
    /\ Cardinality(Listings) = 1

-----------------------------------------------------------------------------
(* SiblingFileCollection while other processes change the storage *)

MaxChanges == 1

\* a call is running: between its check of the directory and its return
Running ==
    pc \in {"sib_exists_list", "sib_exists_loop", "sib_count_list", "sib_count_loop"}

\* another process changes the storage to st
Change(st) ==
    /\ Running
    /\ changes < MaxChanges
    /\ fs' = st
    /\ seen' = seen \cup {st}
    /\ changes' = changes + 1
    /\ UNCHANGED <<collVars, present, callVars, at_entry, nested, basenames,
                   parserVars>>

\* another process removes a directory with all it holds
EnvRemoveDir ==
    \E d \in Dirs :
        /\ fs.exists[d]
        /\ Change([exists |-> [fs.exists EXCEPT ![d] = FALSE],
                   entries |-> [fs.entries EXCEPT ![d] = {}]])

\* another process creates a directory
EnvCreateDir ==
    \E d \in Dirs :
        /\ ~fs.exists[d]
        /\ Change([fs EXCEPT !.exists[d] = TRUE])

\* another process creates a file
EnvAddEntry ==
    \E d \in Dirs, b \in Basenames :
        /\ fs.exists[d] /\ b \notin fs.entries[d]
        /\ Change([fs EXCEPT !.entries[d] = @ \cup {b}])

\* another process removes a file
EnvRemoveEntry ==
    \E d \in Dirs, b \in Basenames :
        /\ b \in fs.entries[d]
        /\ Change([fs EXCEPT !.entries[d] = @ \ {b}])

\* collections without empty slots, with a nested threshold that is not zero
RaceInit ==
    /\ SibInit
    /\ kind = "list"
    /\ \A x \in DOMAIN flat_targets : flat_targets[x] # <<>>
    /\ nested.threshold[1] > 0

RaceNext ==
    \/ SibExistsCall \/ SibExistsList \/ SibExistsIter
    \/ SibCountCall \/ SibCountList \/ SibCountIter \/ SibCountReturn
    \/ EnvRemoveDir \/ EnvCreateDir \/ EnvAddEntry \/ EnvRemoveEntry

SpecRace == RaceInit /\ [][RaceNext]_vars

\* the value the finished call would return on the storage st
ValueOn(st) ==
    IF args.op = "sib_exists"
    THEN SibExistsRun(Self, None, st, nested).val
    ELSE SibCountRun(Self, args, kind, st, nested)

\* C7 (as claimed): the value a call returns while other processes change
\* the storage is the value the same call returns on the storage of one
\* single instant between its start and its end.
C7_SingleInstant ==
    (pc = "done" /\ args.op \in SibOps) => \E st \in seen : ret = ValueOn(st)

-----------------------------------------------------------------------------
(* law.parser: the cached command line helpers *)

MaxArgs == 2
MaxCalls == 3

\* the actions of the full luigi parser: the positional root task, a
\* parameter of the root task and two global options
ParserActions ==
    { [opts |-> {}, dest |-> "root_task"],
      [opts |-> {"--n"}, dest |-> "n"],
      [opts |-> {"--local-scheduler"}, dest |-> "core_local_scheduler"],
      [opts |-> {"--workers"}, dest |-> "core_workers"] }

\* the parameters Register.get_all_params() gives for the root task
RootDests == {"n"}

CmdlineOptions == {"--n", "--local-scheduler", "--workers"}

\* the module-level names before anything is cached (all None)
NoneParser == [set |-> FALSE, id |-> 0, actions |-> {}]
NoneList == [set |-> FALSE, items |-> <<>>]
NoneDict == [set |-> FALSE, items |-> {}]

EmptyCache ==
    [full_parser |-> NoneParser, root_task_parser |-> NoneParser,
     global_cmdline_args |-> NoneList, global_cmdline_values |-> NoneDict]

ParserFns == DOMAIN EmptyCache

\* "if _full_parser:", "if _root_task_parser:": an ArgumentParser is true
TruthyParser(o) == o.set
\* "if _global_cmdline_args:": None and the empty list are false
TruthyList(o) == o.set /\ Len(o.items) > 0
\* "if _global_cmdline_values:": None and the empty dict are false
TruthyDict(o) == o.set /\ o.items # {}

\* one more computation of the cached object f, stored
Stored(S, f, obj) ==
    [cache |-> [S.cache EXCEPT ![f] = obj],
     builds |-> [S.builds EXCEPT ![f] = @ + 1]]

\* full_parser()
FullParser(S, lp) ==
    IF TruthyParser(S.cache.full_parser)
    THEN [S |-> S, val |-> S.cache.full_parser]
    ELSE IF ~lp.active THEN [S |-> S, val |-> NoneParser]
    ELSE LET obj == [set |-> TRUE, id |-> S.builds.full_parser + 1,
                     actions |-> ParserActions]
         IN  [S |-> Stored(S, "full_parser", obj), val |-> obj]

\* root_task_parser()
RootTaskParser(S, lp) ==
    IF TruthyParser(S.cache.root_task_parser)
    THEN [S |-> S, val |-> S.cache.root_task_parser]
    ELSE IF ~lp.active THEN [S |-> S, val |-> NoneParser]
    ELSE LET full == FullParser(S, lp)
             obj == [set |-> TRUE, id |-> S.builds.root_task_parser + 1,
                     actions |-> { a \in full.val.actions :
                                     a.opts = {} \/ a.dest \in RootDests }]
         IN  [S |-> Stored(full.S, "root_task_parser", obj), val |-> obj]

\* parser.parse_known_args(args)[1]: the arguments the parser does not know
UnknownArgs(parser, cmdline) ==
    SelectSeq(cmdline, LAMBDA arg : \A a \in parser.actions : arg \notin a.opts)

\* global_cmdline_args()
GlobalCmdlineArgs(S, lp) ==
    IF TruthyList(S.cache.global_cmdline_args)
    THEN [S |-> S, val |-> S.cache.global_cmdline_args]
    ELSE IF ~lp.active THEN [S |-> S, val |-> NoneList]
    ELSE LET root == RootTaskParser(S, lp)
             obj == [set |-> TRUE,
                     items |-> UnknownArgs(root.val, lp.cmdline_args)]
         IN  [S |-> Stored(root.S, "global_cmdline_args", obj), val |-> obj]

\* global_cmdline_values()
GlobalCmdlineValues(S, lp) ==
    IF TruthyDict(S.cache.global_cmdline_values)
    THEN [S |-> S, val |-> S.cache.global_cmdline_values]
    ELSE IF ~lp.active THEN [S |-> S, val |-> NoneDict]
    ELSE LET full == FullParser(S, lp)
             gargs == GlobalCmdlineArgs(full.S, lp)
             obj == [set |-> TRUE,
                     items |-> { <<a.dest, TRUE>> : a \in
                                 { b \in full.val.actions :
                                     \E k \in DOMAIN gargs.val.items :
                                         gargs.val.items[k] \in b.opts } }]
         IN  [S |-> Stored(gargs.S, "global_cmdline_values", obj), val |-> obj]

\* a call from outside returns r.val and leaves the cache as r.S
Returns(f, r) ==
    /\ i' = i + 1
    /\ args' = [op |-> f]
    /\ ret' = r.val
    /\ cache' = r.S.cache
    /\ builds' = r.S.builds
    /\ UNCHANGED <<collVars, present, pc, n, existing_keys, trace, at_entry,
                   sibVars, luigi_parser>>

ParserState == [cache |-> cache, builds |-> builds]

CallFullParser ==
    /\ i < MaxCalls
    /\ Returns("full_parser", FullParser(ParserState, luigi_parser))

CallRootTaskParser ==
    /\ i < MaxCalls
    /\ Returns("root_task_parser", RootTaskParser(ParserState, luigi_parser))

CallGlobalCmdlineArgs ==
    /\ i < MaxCalls
    /\ Returns("global_cmdline_args", GlobalCmdlineArgs(ParserState, luigi_parser))

CallGlobalCmdlineValues ==
    /\ i < MaxCalls
    /\ Returns("global_cmdline_values", GlobalCmdlineValues(ParserState, luigi_parser))

\* luigi enters its CmdlineParser context: get_instance() is not None now
LuigiEnter ==
    /\ ~luigi_parser.active
    /\ luigi_parser' = [luigi_parser EXCEPT !.active = TRUE]
    /\ UNCHANGED <<collVars, present, callVars, at_entry, sibVars, cache, builds>>

ParserInit ==
    /\ luigi_parser \in [active : {FALSE},
                         cmdline_args : SeqsOver(CmdlineOptions, 0..MaxArgs)]
    /\ cache = EmptyCache
    /\ builds = [f \in ParserFns |-> 0]
    /\ kind = "list" /\ flat_targets = <<>> /\ threshold = <<1, 1>>
    /\ present = [l \in TCLeaves |-> FALSE]
    /\ NoCall /\ NoRemove /\ NoSibling

ParserNext ==
    \/ CallFullParser \/ CallRootTaskParser \/ CallGlobalCmdlineArgs
    \/ CallGlobalCmdlineValues \/ LuigiEnter

SpecParser == ParserInit /\ [][ParserNext]_vars

\* C10 (as claimed): each helper caches its result: once it has computed a
\* value, a later call returns the cached value and computes nothing, the
\* empty argument list and the empty value dictionary included.
C10_ComputedOnce == \A f \in ParserFns : builds[f] <= 1

=============================================================================
